---- MODULE Spec2Model ----
(***************************************************************************)
(* Model of dataset/transforms.py: the AUG_METHODS registry, the           *)
(* configuration compiler create_AugTransforms, BaseClassWiseAugmenter,    *)
(* Cutout, CutAddNoise and PadIfNeed.                                      *)
(*                                                                         *)
(* Python values are encoded as records so that values of different Python *)
(* types can sit in one collection:                                        *)
(*   a params value  [type, str, kw, items]                                *)
(*       type = "str"  : the string str                                    *)
(*       type = "dict" : the mapping whose items are the pairs in kw       *)
(*       type = "int"  : some integer (never a valid params value)         *)
(*       type = "list" : the list items (of random_choice elements)        *)
(*   a random_choice element [isdict, entries]: a dict with the given      *)
(*       <<key, params>> entries in order, or something that is no dict    *)
(*   a configuration: the sequence of the dict's <<key, params>> items in  *)
(*       insertion order (keys distinct)                                   *)
(*   a transform object [id, name, fid, mode, kw, cands]: id is the        *)
(*       object's identity, name/fid the factory that built it, mode/kw    *)
(*       the way the factory was called, cands the transforms a            *)
(*       RandomChoice holds                                                *)
(***************************************************************************)
EXTENDS Integers, Sequences, FiniteSets, TLC

VARIABLES
    AUG_METHODS,      \* the registry: function from names to factory ids
    regCall,          \* the last register_method call and whether it raised
    augments,         \* the configuration the caller holds
    ret,              \* outcome of the last create_AugTransforms call
    calls,            \* factory calls made by the last create_AugTransforms
    methods_at_call,  \* AUG_METHODS as the last create_AugTransforms saw it
    mapping,          \* the class_transforms_mapping the caller holds
    augmenter,        \* outcome of the last BaseClassWiseAugmenter(...)
    cut,              \* outcome of the last Cutout.__call__
    pad,              \* outcome of the last PadIfNeed.__call__
    noise             \* a CutAddNoise, its input and its last __call__

vars == <<AUG_METHODS, regCall, augments, ret, calls, methods_at_call,
          mapping, augmenter, cut, pad, noise>>

(***************************************************************************)
(* Bounds of the model.                                                    *)
(***************************************************************************)
MaxEntries == 2     \* top-level entries of a configuration
MaxChoices == 2     \* elements of a random_choice list
MaxFns == 2         \* distinct user functions per name
MaxIndices == 2     \* indices listed for one class
MaxIndex == 2       \* largest index written in a mapping
RandomGrain == 2    \* random.random() and prob are multiples of 1/RandomGrain
MaxCutSide == 2     \* width and height of the images given to Cutout
                    \* and to CutAddNoise
MaxLength == 2      \* Cutout's length
MaxHoles == 2       \* n_holes of Cutout and of CutAddNoise
MaxNoiseLength == 4 \* CutAddNoise's length
MaxPadSide == 6     \* width and height of the images given to PadIfNeed

(***************************************************************************)
(* The registry.                                                           *)
(***************************************************************************)
\* the functions decorated with @register_method in the module, in order
BuiltinNames ==
    { "random_cutout", "random_cutaddnoise", "color_jitter",
      "random_autocontrast", "random_adjustsharpness", "random_invert",
      "random_equalize", "random_augmix", "random_crop",
      "random_color_jitter", "random_horizonflip", "random_verticalflip",
      "random_rotate", "to_tensor", "to_tensor_without_div", "normalize",
      "random_augment", "center_crop", "resize", "centercrop_resize",
      "random_affine", "random_gaussianblur", "random_grayscale",
      "random_crop_and_resize", "pad2square", "random_choice" }

\* factory id of the module's own functions; user functions get 1..MaxFns
BuiltinFid == 0

\* AUG_METHODS once the module has been imported
ImportedMethods == [n \in BuiltinNames |-> BuiltinFid]

NoCall == [name |-> "", fid |-> BuiltinFid, raised |-> FALSE]

\* register_method(fn) that overwrites an existing entry
register_method_overwrite(fn) ==
    /\ AUG_METHODS' = [n \in DOMAIN AUG_METHODS \cup {fn.name} |->
                          IF n = fn.name THEN fn.fid ELSE AUG_METHODS[n]]
    /\ regCall' = [name |-> fn.name, fid |-> fn.fid, raised |-> FALSE]

\* register_method(fn): key = fn.__name__; ValueError when key is present
register_method(fn) ==
    IF fn.name \in DOMAIN AUG_METHODS
    THEN /\ regCall' = [name |-> fn.name, fid |-> fn.fid, raised |-> TRUE]
         /\ UNCHANGED AUG_METHODS
    ELSE /\ AUG_METHODS' = [n \in DOMAIN AUG_METHODS \cup {fn.name} |->
                               IF n = fn.name THEN fn.fid ELSE AUG_METHODS[n]]
         /\ regCall' = [name |-> fn.name, fid |-> fn.fid, raised |-> FALSE]

\* user functions somebody decorates after the import
Fns(names) == [name : names, fid : 1..MaxFns]

Register(fns) ==
    /\ \E fn \in fns : register_method(fn)
    /\ UNCHANGED <<augments, ret, calls, methods_at_call, mapping, augmenter,
                   cut, pad, noise>>

(***************************************************************************)
(* Signatures of the registered factories (the def lines of the module).   *)
(***************************************************************************)
\* keyword parameters a factory's def line names
Allowed(name) ==
    CASE name \in {"random_cutout"} ->
            {"n_holes", "length", "ratio", "h_range", "w_range", "prob"}
      [] name = "random_cutaddnoise" ->
            {"n_holes", "length", "noisy_src", "h_range", "w_range", "prob"}
      [] name = "color_jitter" ->
            {"brightness", "contrast", "saturation", "hue"}
      [] name \in {"random_autocontrast", "random_invert", "random_equalize",
                   "random_horizonflip", "random_verticalflip",
                   "random_grayscale"} -> {"p"}
      [] name = "random_adjustsharpness" -> {"sharpness_factor", "p"}
      [] name = "random_color_jitter" -> {"prob"}
      [] name = "random_rotate" -> {"degrees"}
      [] name = "normalize" -> {"mean", "std"}
      [] name = "random_augment" ->
            {"num_ops", "magnitude", "num_magnitude_bins"}
      [] name \in {"center_crop", "resize", "random_crop_and_resize"} ->
            {"size"}
      [] name = "centercrop_resize" -> {"center_size", "re_size"}
      [] name = "random_affine" ->
            {"degrees", "translate", "scale", "shear", "fill", "center"}
      [] name = "random_gaussianblur" -> {"prob", "kernel_size", "sigma"}
      [] name = "pad2square" -> {"pad_value", "mode"}
      [] name = "random_choice" -> {"transforms"}
      [] OTHER -> {}

\* keyword parameters without a default
Required(name) ==
    CASE name \in {"center_crop", "random_crop_and_resize"} -> {"size"}
      [] name = "random_crop" -> {"size"}      \* T.RandomCrop(size, ...)
      [] name = "random_rotate" -> {"degrees"}
      [] name = "centercrop_resize" -> {"center_size", "re_size"}
      [] name = "random_choice" -> {"transforms"}
      [] OTHER -> {}

\* factories declared with **kwargs
VarKw(name) ==
    name \in {"random_augmix", "random_crop", "random_color_jitter",
              "random_crop_and_resize"}

KwNames(kw) == {p[1] : p \in kw}

\* does fn(**kw) bind its arguments (no TypeError)?  A user function is
\* taken to be declared def f(**kwargs).
Accepts(name, fid, kw) ==
    \/ fid # BuiltinFid
    \/ /\ Required(name) \subseteq KwNames(kw)
       /\ VarKw(name) \/ KwNames(kw) \subseteq Allowed(name)

(***************************************************************************)
(* Python values of the configurations.                                    *)
(***************************************************************************)
PStr(s) == [type |-> "str", str |-> s, kw |-> {}, items |-> <<>>]
PDict(kw) == [type |-> "dict", str |-> "", kw |-> kw, items |-> <<>>]
PInt == [type |-> "int", str |-> "", kw |-> {}, items |-> <<>>]
PList(items) == [type |-> "list", str |-> "", kw |-> {}, items |-> items]

\* params == 'no_params'
IsNoParams(params) == params.type = "str" /\ params.str = "no_params"

(***************************************************************************)
(* Object identity: a new object is distinct from every live object.       *)
(* Identities are only ever compared between objects alive together, so    *)
(* the objects a call allocates avoid the identities of the objects that   *)
(* outlive the call's assignment; the value the assignment replaces is     *)
(* garbage by then.                                                        *)
(***************************************************************************)
\* a factory that hands out one shared instance instead of a new object
NewIdShared(used) == 0

\* the identity of a newly allocated object
NewId(used) == CHOOSE n \in 0..Cardinality(used) : n \notin used

(***************************************************************************)
(* create_AugTransforms.  The walk threads a record                        *)
(*   [aug_list, used, calls, err]                                          *)
(* : the list being filled, the identities in use, the factory calls made  *)
(* so far and the exception raised ("" while none is).                     *)
(***************************************************************************)
Raise(st, e) == [st EXCEPT !.err = e]

\* AUG_METHODS[aug_name](...) followed by aug_list.append
CallFactory(aug_name, mode, params, st) ==
    LET fid == AUG_METHODS[aug_name]
        kw == IF mode = "kwargs" THEN params.kw ELSE {}
        call == [name |-> aug_name, mode |-> mode, kw |-> kw,
                 params |-> params]
        obj == [id |-> NewId(st.used), name |-> aug_name, fid |-> fid,
                mode |-> mode, kw |-> kw, cands |-> <<>>]
    IN  IF ~Accepts(aug_name, fid, kw)
        THEN [st EXCEPT !.calls = Append(@, call), !.err = "TypeError"]
        ELSE [st EXCEPT !.calls = Append(@, call),
                        !.aug_list = Append(@, obj),
                        !.used = @ \cup {obj.id}]

\* addAugToSequence that puts the new transform in front
addAugToSequence_prepend(aug_name, params, st) ==
    LET r == IF IsNoParams(params)
             THEN IF aug_name \notin DOMAIN AUG_METHODS
                  THEN Raise(st, "KeyError")
                  ELSE CallFactory(aug_name, "noargs", params, st)
             ELSE IF params.type # "dict" THEN Raise(st, "AssertionError")
             ELSE IF aug_name \notin DOMAIN AUG_METHODS
                  THEN Raise(st, "KeyError")
                  ELSE CallFactory(aug_name, "kwargs", params, st)
    IN  IF r.err = "" /\ Len(r.aug_list) > 1
        THEN [r EXCEPT !.aug_list =
                 <<r.aug_list[Len(r.aug_list)]>> \o st.aug_list]
        ELSE r

\* addAugToSequence that skips a name the registry does not know
addAugToSequence_skip(aug_name, params, st) ==
    IF aug_name \notin DOMAIN AUG_METHODS THEN st
    ELSE IF IsNoParams(params)
         THEN CallFactory(aug_name, "noargs", params, st)
         ELSE IF params.type # "dict" THEN Raise(st, "AssertionError")
         ELSE CallFactory(aug_name, "kwargs", params, st)

\* addAugToSequence that falls back to the defaults on bad params
addAugToSequence_default(aug_name, params, st) ==
    IF IsNoParams(params) \/ params.type # "dict"
    THEN IF aug_name \notin DOMAIN AUG_METHODS
         THEN Raise(st, "KeyError")
         ELSE CallFactory(aug_name, "noargs", params, st)
    ELSE IF aug_name \notin DOMAIN AUG_METHODS
         THEN Raise(st, "KeyError")
         ELSE CallFactory(aug_name, "kwargs", params, st)

\* addAugToSequence(aug_name, params, aug_list)
addAugToSequence(aug_name, params, st) ==
    IF IsNoParams(params)
    THEN IF aug_name \notin DOMAIN AUG_METHODS
         THEN Raise(st, "KeyError")
         ELSE CallFactory(aug_name, "noargs", params, st)
    ELSE IF params.type # "dict" THEN Raise(st, "AssertionError")
    ELSE IF aug_name \notin DOMAIN AUG_METHODS
         THEN Raise(st, "KeyError")
         ELSE CallFactory(aug_name, "kwargs", params, st)

\* the loop "for choice in augments[key]" from element i on
RECURSIVE ChoiceLoop(_, _, _)
ChoiceLoop(items, i, st) ==
    IF st.err # "" \/ i > Len(items) THEN st
    ELSE LET choice == items[i]
         IN  IF ~(choice.isdict /\ Len(choice.entries) = 1)
             THEN Raise(st, "AssertionError")
             ELSE ChoiceLoop(items, i + 1,
                    addAugToSequence(choice.entries[1][1],
                                     choice.entries[1][2], st))

\* the random_choice branch with the candidates spliced into the pipeline
RandomChoiceBranch_flat(key, params, st) ==
    IF params.type # "list" THEN Raise(st, "AssertionError")
    ELSE LET c == ChoiceLoop(params.items, 1, [st EXCEPT !.aug_list = <<>>])
         IN  [c EXCEPT !.aug_list = st.aug_list \o c.aug_list]

\* the branch "if key == 'random_choice'" of the main loop
RandomChoiceBranch(key, params, st) ==
    IF params.type # "list" THEN Raise(st, "AssertionError")
    ELSE LET c == ChoiceLoop(params.items, 1, [st EXCEPT !.aug_list = <<>>])
             obj == [id |-> NewId(c.used), name |-> key,
                     fid |-> AUG_METHODS[key], mode |-> "positional",
                     kw |-> {}, cands |-> c.aug_list]
         IN  IF c.err # "" THEN [c EXCEPT !.aug_list = st.aug_list]
             ELSE [c EXCEPT !.aug_list = Append(st.aug_list, obj),
                            !.used = @ \cup {obj.id}]

\* the loop "for key, params in augments.items()" from entry i on
RECURSIVE MainLoop(_, _, _)
MainLoop(cfg, i, st) ==
    IF st.err # "" \/ i > Len(cfg) THEN st
    ELSE LET key == cfg[i][1]
             params == cfg[i][2]
         IN  MainLoop(cfg, i + 1,
                IF key = "random_choice"
                THEN RandomChoiceBranch(key, params, st)
                ELSE addAugToSequence(key, params, st))

NoPipeline == [id |-> -1, transforms |-> <<>>]

\* create_AugTransforms(cfg) called while the objects in live exist:
\* [err, pipeline, calls]; pipeline is the T.Compose returned when err = ""
create_AugTransforms(cfg, live) ==
    LET st == MainLoop(cfg, 1, [aug_list |-> <<>>, used |-> live,
                                calls |-> <<>>, err |-> ""])
    IN  [err |-> st.err,
         pipeline |-> IF st.err = ""
                      THEN [id |-> NewId(st.used), transforms |-> st.aug_list]
                      ELSE NoPipeline,
         calls |-> st.calls]

(***************************************************************************)
(* The configurations the caller may hold.                                 *)
(***************************************************************************)
\* a name no module function has; registered only if a user registers it
UserName == "my_aug"

OrdinaryKeys == {"to_tensor", "resize", UserName}
OrdinaryParams == {PStr("no_params"), PDict({<<"size", 32>>}), PInt}

OneKey(k, p) == [isdict |-> TRUE, entries |-> << <<k, p>> >>]
Choices ==
    { OneKey("to_tensor", PStr("no_params")), OneKey("to_tensor", PInt),
      OneKey(UserName, PDict({<<"size", 32>>})) }
    \cup { [isdict |-> TRUE, entries |-> <<>>],
           [isdict |-> TRUE, entries |-> << <<"to_tensor", PStr("no_params")>>,
                                            <<"resize", PStr("no_params")>> >>],
           [isdict |-> FALSE, entries |-> <<>>] }

ChoiceLists == UNION {[1..n -> Choices] : n \in 0..MaxChoices}

ChoiceParams ==
    {PList(l) : l \in ChoiceLists} \cup {PStr("no_params"), PDict({})}

ParamsFor(k) == IF k = "random_choice" THEN ChoiceParams ELSE OrdinaryParams

\* the dicts of at most n items with keys in keys, as item sequences
RECURSIVE ConfigsFrom(_, _)
ConfigsFrom(keys, n) ==
    IF n = 0 THEN {<<>>}
    ELSE {<<>>} \cup
         UNION { { << <<k, p>> >> \o c :
                      p \in ParamsFor(k), c \in ConfigsFrom(keys \ {k}, n - 1) }
                 : k \in keys }

Configs(n) == ConfigsFrom(OrdinaryKeys \cup {"random_choice"}, n)

(***************************************************************************)
(* Live objects.                                                           *)
(***************************************************************************)
TransformIds(seq) ==
    UNION { {seq[i].id} \cup {seq[i].cands[j].id : j \in DOMAIN seq[i].cands}
            : i \in DOMAIN seq }

\* identities of a T.Compose and of everything it holds
PipelineIds(p) ==
    IF p = NoPipeline THEN {} ELSE {p.id} \cup TransformIds(p.transforms)

NoAugmenter ==
    [called |-> FALSE, err |-> "", base_transforms |-> NoPipeline,
     has_class |-> FALSE, class_transforms |-> <<>>]

AugmenterIds(a) ==
    PipelineIds(a.base_transforms) \cup
    UNION {PipelineIds(a.class_transforms[c]) : c \in DOMAIN a.class_transforms}

(***************************************************************************)
(* Actions of the compiler.                                                *)
(***************************************************************************)
NoRet == [called |-> FALSE, err |-> "", pipeline |-> NoPipeline]

\* ret = create_AugTransforms(augments)
Compile ==
    /\ LET r == create_AugTransforms(augments, AugmenterIds(augmenter))
       IN  /\ ret' = [called |-> TRUE, err |-> r.err, pipeline |-> r.pipeline]
           /\ calls' = r.calls
    /\ methods_at_call' = AUG_METHODS
    /\ UNCHANGED <<AUG_METHODS, regCall, augments, mapping, augmenter, cut, pad,
                   noise>>

NoMapping == [none |-> TRUE, items |-> <<>>]
NoCut == [called |-> FALSE]
NoPad == [called |-> FALSE]
NoNoise == [called |-> FALSE]

InitCompile ==
    /\ AUG_METHODS = ImportedMethods
    /\ regCall = NoCall
    /\ augments \in Configs(MaxEntries)
    /\ ret = NoRet
    /\ calls = <<>>
    /\ methods_at_call = ImportedMethods
    /\ mapping = NoMapping
    /\ augmenter = NoAugmenter
    /\ cut = NoCut
    /\ pad = NoPad
    /\ noise = NoNoise

\* a user decorates a function named UserName
UserFn == [name |-> UserName, fid |-> 1]

RegisterUser == Register({UserFn})

NextCompile == RegisterUser \/ Compile

SpecCompile == InitCompile /\ [][NextCompile]_vars

(***************************************************************************)
(* What the claims say about a configuration, stated on the configuration  *)
(* itself.                                                                 *)
(***************************************************************************)
IsOrdinary(e) == e[1] # "random_choice"

\* (k, p) names a registered factory, with params the factory accepts
ResolvesIn(k, p, reg) ==
    /\ k \in DOMAIN reg
    /\ IsNoParams(p) \/ p.type = "dict"
    /\ Accepts(k, reg[k], IF p.type = "dict" THEN p.kw ELSE {})

\* obj is what the factory registered under k returns for params p
BuiltBy(obj, k, p, reg) ==
    /\ obj.name = k
    /\ obj.fid = reg[k]
    /\ \/ IsNoParams(p) /\ obj.mode = "noargs" /\ obj.kw = {}
       \/ p.type = "dict" /\ obj.mode = "kwargs" /\ obj.kw = p.kw

WellFormedChoice(c) == c.isdict /\ Len(c.entries) = 1

\* some step name of cfg is absent from reg
HasUnknownName(cfg, reg) ==
    \E i \in DOMAIN cfg :
       \/ IsOrdinary(cfg[i]) /\ cfg[i][1] \notin DOMAIN reg
       \/ /\ ~IsOrdinary(cfg[i])
          /\ cfg[i][2].type = "list"
          /\ \E j \in DOMAIN cfg[i][2].items :
                \E m \in DOMAIN cfg[i][2].items[j].entries :
                   cfg[i][2].items[j].entries[m][1] \notin DOMAIN reg

BadParamsValue(p) == ~IsNoParams(p) /\ p.type # "dict"

\* some step of cfg has a params value that is no sentinel and no mapping
HasBadParams(cfg) ==
    \E i \in DOMAIN cfg :
       \/ IsOrdinary(cfg[i]) /\ BadParamsValue(cfg[i][2])
       \/ /\ ~IsOrdinary(cfg[i])
          /\ cfg[i][2].type = "list"
          /\ \E j \in DOMAIN cfg[i][2].items :
                /\ WellFormedChoice(cfg[i][2].items[j])
                /\ BadParamsValue(cfg[i][2].items[j].entries[1][2])

\* some element of a random_choice list is no mapping with exactly one key
HasBadChoice(cfg) ==
    \E i \in DOMAIN cfg :
       /\ ~IsOrdinary(cfg[i])
       /\ cfg[i][2].type = "list"
       /\ \E j \in DOMAIN cfg[i][2].items :
             ~WellFormedChoice(cfg[i][2].items[j])

\* the (name, params) pairs of cfg in the order they are written: ordinary
\* entries and the elements of random_choice lists
RECURSIVE StepsWritten(_, _)
StepsWritten(cfg, i) ==
    IF i > Len(cfg) THEN <<>>
    ELSE (IF IsOrdinary(cfg[i]) THEN <<cfg[i]>>
          ELSE [j \in DOMAIN cfg[i][2].items |->
                   cfg[i][2].items[j].entries[1]])
         \o StepsWritten(cfg, i + 1)

Steps == ret.pipeline.transforms

(***************************************************************************)
(* C1: when every top-level entry of the configuration is ordinary (no     *)
(* random_choice) and resolves, create_AugTransforms returns a pipeline    *)
(* with as many steps as entries, and step i is what the factory           *)
(* registered under entry i's name returns for entry i's params.           *)
(***************************************************************************)
AllOrdinaryResolve ==
    \A i \in DOMAIN augments :
       /\ IsOrdinary(augments[i])
       /\ ResolvesIn(augments[i][1], augments[i][2], methods_at_call)

C1_OrdinaryEntriesInOrder ==
    (ret.called /\ AllOrdinaryResolve) =>
       /\ ret.err = ""
       /\ Len(Steps) = Len(augments)
       /\ \A i \in DOMAIN augments :
             BuiltBy(Steps[i], augments[i][1], augments[i][2], methods_at_call)

C1_Witness ==
    /\ ret.called /\ AllOrdinaryResolve
    /\ Len(augments) >= 2
    /\ augments[1][1] = UserName /\ augments[2][1] = "resize"
    /\ augments[1][2].type = "str" /\ augments[2][2].type = "dict"
    /\ Len(Steps) = Len(augments)

(***************************************************************************)
(* C2: in a compiled pipeline a random_choice entry with k candidates is   *)
(* exactly one step, at the entry's position; that step holds the k        *)
(* resolved candidates in list order, no candidate is a step of the parent *)
(* pipeline, and the pipeline has as many steps as the configuration has   *)
(* top-level entries.                                                      *)
(***************************************************************************)
C2_ChoiceIsOneStep ==
    (ret.called /\ ret.err = "") =>
       /\ Len(Steps) = Len(augments)
       /\ \A i \in DOMAIN augments :
             ~IsOrdinary(augments[i]) =>
                LET items == augments[i][2].items
                    obj == Steps[i]
                IN  /\ obj.name = "random_choice"
                    /\ obj.fid = methods_at_call["random_choice"]
                    /\ Len(obj.cands) = Len(items)
                    /\ \A j \in DOMAIN items :
                          /\ BuiltBy(obj.cands[j], items[j].entries[1][1],
                                     items[j].entries[1][2], methods_at_call)
                          /\ \A m \in DOMAIN Steps :
                                Steps[m].id # obj.cands[j].id

C2_Witness ==
    /\ ret.called /\ ret.err = ""
    /\ Len(augments) >= 2
    /\ IsOrdinary(augments[1]) /\ ~IsOrdinary(augments[2])
    /\ Len(augments[2][2].items) >= 2
    /\ Len(Steps) = Len(augments)
    /\ Len(Steps[2].cands) = Len(augments[2][2].items)
    /\ Steps[2].cands[1].name # Steps[2].cands[2].name

(***************************************************************************)
(* C4: compiling a configuration with a step name the registry does not    *)
(* have (top-level or random_choice candidate) raises, returns no          *)
(* pipeline, and leaves the registry as it was.                            *)
(***************************************************************************)
CompileStep ==
    ret' # ret \/ calls' # calls \/ methods_at_call' # methods_at_call

C4_UnknownNameRaises ==
    [][ (CompileStep /\ HasUnknownName(augments, AUG_METHODS)) =>
           /\ ret'.err # ""
           /\ ret'.pipeline = NoPipeline
           /\ AUG_METHODS' = AUG_METHODS ]_vars

\* the unknown name sits after an entry whose factory was already called
C4_Witness ==
    /\ ret.called /\ ret.err = "KeyError"
    /\ HasUnknownName(augments, methods_at_call)
    /\ Len(calls) >= 1
    /\ ret.pipeline = NoPipeline
    /\ methods_at_call = AUG_METHODS

(***************************************************************************)
(* C5: compilation raises when a step's params value is neither the        *)
(* string 'no_params' nor a mapping, or when an element of a random_choice *)
(* list is not a mapping with exactly one key; a factory is called without *)
(* arguments exactly when params is the sentinel and with the mapping's    *)
(* keyword arguments exactly when params is a mapping; and a compilation   *)
(* that succeeds has called the factory of every step written.             *)
(***************************************************************************)
C5_BadParamsRaise ==
    ret.called =>
       /\ (HasBadParams(augments) \/ HasBadChoice(augments)) =>
             ret.err # "" /\ ret.pipeline = NoPipeline
       /\ \A n \in DOMAIN calls :
             /\ calls[n].mode = "noargs" <=> IsNoParams(calls[n].params)
             /\ calls[n].mode = "kwargs" <=> calls[n].params.type = "dict"
             /\ calls[n].mode = "kwargs" => calls[n].kw = calls[n].params.kw
       /\ ret.err = "" =>
             LET w == StepsWritten(augments, 1)
             IN  /\ Len(calls) = Len(w)
                 /\ \A n \in DOMAIN w :
                       /\ calls[n].name = w[n][1]
                       /\ calls[n].params = w[n][2]

\* a bad params value met after a no-argument and a keyword call
C5_Witness ==
    /\ ret.called /\ ret.err = "AssertionError"
    /\ HasBadParams(augments)
    /\ \E n \in DOMAIN calls : calls[n].mode = "noargs"
    /\ \E n \in DOMAIN calls : calls[n].mode = "kwargs" /\ calls[n].kw # {}

(***************************************************************************)
(* The registry on its own: users decorate functions after the import,     *)
(* under new names and under names already taken.                          *)
(***************************************************************************)
RegistryNames == {UserName, "my_blur", "my_noise", "resize"}

RegisterAny == Register(Fns(RegistryNames))

InitRegistry ==
    /\ AUG_METHODS = ImportedMethods
    /\ regCall = NoCall
    /\ augments = <<>>
    /\ ret = NoRet
    /\ calls = <<>>
    /\ methods_at_call = ImportedMethods
    /\ mapping = NoMapping
    /\ augmenter = NoAugmenter
    /\ cut = NoCut
    /\ pad = NoPad
    /\ noise = NoNoise

NextRegistry == RegisterAny

SpecRegistry == InitRegistry /\ [][NextRegistry]_vars

(***************************************************************************)
(* C3: registering a function under a name the registry already has        *)
(* raises, and the failed call changes nothing: the name still maps to the *)
(* factory registered first and every other entry is as it was; no step    *)
(* ever changes or removes an entry.                                       *)
(***************************************************************************)
C3_DuplicateNameRaises ==
    [][ /\ (regCall' # regCall /\ regCall'.name \in DOMAIN AUG_METHODS) =>
              regCall'.raised /\ AUG_METHODS' = AUG_METHODS
        /\ \A n \in DOMAIN AUG_METHODS :
              n \in DOMAIN AUG_METHODS' /\ AUG_METHODS'[n] = AUG_METHODS[n]
      ]_vars

\* a second function under a user's name was refused after other
\* registrations went through
C3_Witness ==
    /\ regCall.raised
    /\ regCall.name = UserName
    /\ AUG_METHODS[UserName] # regCall.fid
    /\ "my_blur" \in DOMAIN AUG_METHODS
    /\ \A n \in BuiltinNames : AUG_METHODS[n] = BuiltinFid

(***************************************************************************)
(* Python's str and int conversions.  A string is a sequence of one-       *)
(* character strings.                                                      *)
(***************************************************************************)
Digits == <<"0", "1", "2", "3", "4", "5", "6", "7", "8", "9">>

\* str(n) for n >= 0
RECURSIVE NatText(_)
NatText(n) ==
    IF n < 10 THEN <<Digits[n + 1]>>
    ELSE NatText(n \div 10) \o <<Digits[(n % 10) + 1]>>

\* str(n)
IntText(n) == IF n < 0 THEN <<"-">> \o NatText(-n) ELSE NatText(n)

\* ' '.join(str(i) for i in l)
RECURSIVE JoinText(_)
JoinText(l) ==
    IF l = <<>> THEN <<>>
    ELSE IF Len(l) = 1 THEN IntText(l[1])
    ELSE IntText(l[1]) \o <<" ">> \o JoinText(Tail(l))

IsSpace(ch) == ch \in {" ", "\t", "\n"}
IsDigit(ch) == \E d \in DOMAIN Digits : Digits[d] = ch
DigitValue(ch) == (CHOOSE d \in DOMAIN Digits : Digits[d] = ch) - 1

\* iterating the string itself: one token per character
RECURSIVE Split_chars(_, _)
Split_chars(text, cur) ==
    IF text = <<>> THEN <<>>
    ELSE << <<Head(text)>> >> \o Split_chars(Tail(text), cur)

\* text.split(): the maximal runs without whitespace; cur is the run so far
RECURSIVE Split(_, _)
Split(text, cur) ==
    IF text = <<>> THEN (IF cur = <<>> THEN <<>> ELSE <<cur>>)
    ELSE IF IsSpace(Head(text))
         THEN (IF cur = <<>> THEN <<>> ELSE <<cur>>) \o Split(Tail(text), <<>>)
         ELSE Split(Tail(text), Append(cur, Head(text)))

RECURSIVE DigitsValue(_, _)
DigitsValue(tok, acc) ==
    IF tok = <<>> THEN acc
    ELSE DigitsValue(Tail(tok), 10 * acc + DigitValue(Head(tok)))

\* int(tok) for a token without whitespace: [ok, val]; ~ok is ValueError
PyInt(tok) ==
    LET signed == tok # <<>> /\ Head(tok) \in {"-", "+"}
        body == IF signed THEN Tail(tok) ELSE tok
    IN  IF body = <<>> \/ \E k \in DOMAIN body : ~IsDigit(body[k])
        THEN [ok |-> FALSE, val |-> 0]
        ELSE [ok |-> TRUE,
              val |-> IF signed /\ Head(tok) = "-"
                      THEN -DigitsValue(body, 0) ELSE DigitsValue(body, 0)]

\* seq[i]: [ok, pos] with pos the 1-based position read; ~ok is IndexError
PyIndex(seq, i) ==
    IF 0 <= i /\ i < Len(seq) THEN [ok |-> TRUE, pos |-> i + 1]
    ELSE IF -Len(seq) <= i /\ i < 0 THEN [ok |-> TRUE, pos |-> Len(seq) + i + 1]
    ELSE [ok |-> FALSE, pos |-> 0]

(***************************************************************************)
(* BaseClassWiseAugmenter.__init__.  A class_transforms_mapping is         *)
(* [none, items]: None, or the dict whose items are the <<class, value>>   *)
(* pairs; a value is [form, list, text]: the list of integers list, or     *)
(* (form = "str") the string text, written from the index list list.       *)
(***************************************************************************)
\* the objects "for i in t" iterates: tokens of the string or list elements
Elements(value) ==
    IF value.form = "str"
    THEN LET toks == Split(value.text, <<>>)
         IN  [k \in DOMAIN toks |-> [isstr |-> TRUE, tok |-> toks[k], num |-> 0]]
    ELSE [k \in DOMAIN value.list |->
             [isstr |-> FALSE, tok |-> <<>>, num |-> value.list[k]]]

\* int(i)
IntOf(e) == IF e.isstr THEN PyInt(e.tok) ELSE [ok |-> TRUE, val |-> e.num]

\* the loop "for i in t" from element j on: [transform, err]
RECURSIVE IndexLoop(_, _, _, _)
IndexLoop(elems, j, base, acc) ==
    IF acc.err # "" \/ j > Len(elems) THEN acc
    ELSE LET n == IntOf(elems[j])
             at == PyIndex(base.transforms, n.val)
         IN  IF ~n.ok THEN [acc EXCEPT !.err = "ValueError"]
             ELSE IF ~at.ok THEN [acc EXCEPT !.err = "IndexError"]
             ELSE IndexLoop(elems, j + 1, base,
                    [acc EXCEPT !.transform =
                        Append(@, base.transforms[at.pos])])

\* the loop "for c, t in class_transforms_mapping.items()" from item k on:
\* [class_transforms, used, err]
RECURSIVE ClassLoop(_, _, _, _)
ClassLoop(items, k, base, st) ==
    IF st.err # "" \/ k > Len(items) THEN st
    ELSE LET c == items[k][1]
             r == IndexLoop(Elements(items[k][2]), 1, base,
                            [transform |-> <<>>, err |-> ""])
             compose == [id |-> NewId(st.used), transforms |-> r.transform]
         IN  IF r.err # "" THEN [st EXCEPT !.err = r.err]
             ELSE ClassLoop(items, k + 1, base,
                    [st EXCEPT !.class_transforms = (c :> compose) @@ @,
                               !.used = @ \cup {compose.id}])

Failed(e) ==
    [called |-> TRUE, err |-> e, base_transforms |-> NoPipeline,
     has_class |-> FALSE, class_transforms |-> <<>>]

\* BaseClassWiseAugmenter.__init__(base, map) while the objects in live exist
NewAugmenter(base, map, live) ==
    LET r == create_AugTransforms(base, live)
    IN  IF r.err # "" THEN Failed(r.err)
        ELSE IF map.none
        THEN [called |-> TRUE, err |-> "", base_transforms |-> r.pipeline,
              has_class |-> FALSE, class_transforms |-> <<>>]
        ELSE LET st == ClassLoop(map.items, 1, r.pipeline,
                          [class_transforms |-> <<>>,
                           used |-> live \cup PipelineIds(r.pipeline),
                           err |-> ""])
             IN  IF st.err # "" THEN Failed(st.err)
                 ELSE [called |-> TRUE, err |-> "",
                       base_transforms |-> r.pipeline, has_class |-> TRUE,
                       class_transforms |-> st.class_transforms]

\* augmenter = Subclass(augments, mapping) of a concrete subclass
Construct ==
    /\ augmenter' = NewAugmenter(augments, mapping, PipelineIds(ret.pipeline))
    /\ UNCHANGED <<AUG_METHODS, regCall, augments, ret, calls, methods_at_call,
                   mapping, cut, pad, noise>>

(***************************************************************************)
(* The inputs of the dispatcher.                                           *)
(***************************************************************************)
ClassKeys == <<"cat", "dog">>

IndexValues == -1..MaxIndex
IndexLists(n) == UNION {[1..m -> IndexValues] : m \in 0..n}
IndexValuesWritten(n) ==
    {[form |-> "list", list |-> l, text |-> <<>>] : l \in IndexLists(n)}
    \cup {[form |-> "str", list |-> l, text |-> JoinText(l)]
             : l \in IndexLists(n)}

\* None, {}, a mapping of one class to at most n indices, or such a mapping
\* with a second class of at most one index
Mappings(n) ==
    {[none |-> TRUE, items |-> <<>>], [none |-> FALSE, items |-> <<>>]}
    \cup {[none |-> FALSE, items |-> << <<ClassKeys[1], v>> >>]
             : v \in IndexValuesWritten(n)}
    \cup {[none |-> FALSE,
           items |-> << <<ClassKeys[1], v>>, <<ClassKeys[2], u>> >>]
             : v \in IndexValuesWritten(n), u \in IndexValuesWritten(1)}

\* base configurations of zero to three steps, and one naming a factory
\* nobody registered
BaseConfig ==
    << <<"to_tensor", PStr("no_params")>>,
       <<"random_choice", PList(<<OneKey("to_tensor", PStr("no_params")),
                                  OneKey("to_tensor", PStr("no_params"))>>)>>,
       <<"resize", PStr("no_params")>> >>
BaseConfigs ==
    {SubSeq(BaseConfig, 1, n) : n \in 0..Len(BaseConfig)}
    \cup {<< <<"to_tensor", PStr("no_params")>>,
             <<UserName, PStr("no_params")>> >>}

InitClassWise ==
    /\ AUG_METHODS = ImportedMethods
    /\ regCall = NoCall
    /\ augments \in BaseConfigs
    /\ ret = NoRet
    /\ calls = <<>>
    /\ methods_at_call = ImportedMethods
    /\ mapping \in Mappings(MaxIndices)
    /\ augmenter = NoAugmenter
    /\ cut = NoCut
    /\ pad = NoPad
    /\ noise = NoNoise

NextClassWise == Compile \/ Construct

SpecClassWise == InitClassWise /\ [][NextClassWise]_vars

(***************************************************************************)
(* What the claims say about a dispatcher, stated on its inputs.           *)
(***************************************************************************)
\* every step written in cfg resolves in reg
ConfigResolves(cfg, reg) ==
    \A i \in DOMAIN cfg :
       IF IsOrdinary(cfg[i])
       THEN ResolvesIn(cfg[i][1], cfg[i][2], reg)
       ELSE /\ cfg[i][2].type = "list"
            /\ \A j \in DOMAIN cfg[i][2].items :
                  /\ WellFormedChoice(cfg[i][2].items[j])
                  /\ ResolvesIn(cfg[i][2].items[j].entries[1][1],
                                cfg[i][2].items[j].entries[1][2], reg)

\* the indices written in the mapping
IndicesWritten ==
    UNION { {mapping.items[k][2].list[j] : j \in DOMAIN mapping.items[k][2].list}
            : k \in DOMAIN mapping.items }

Default == augmenter.base_transforms.transforms

StepIds(p) == {p.transforms[i].id : i \in DOMAIN p.transforms}

(***************************************************************************)
(* C6: for every class whose index list is [i1, ..., im], written as a     *)
(* list or as a space-separated string, the sub-pipeline built for the     *)
(* class has m steps and its j-th step is the step at position ij of the   *)
(* default pipeline (order and repeats kept); construction succeeds when   *)
(* the base configuration resolves and every index is a position of the    *)
(* default pipeline; without a mapping there are no class pipelines.       *)
(***************************************************************************)
C6_ClassPipelineFollowsIndices ==
    augmenter.called =>
       /\ ( /\ ConfigResolves(augments, AUG_METHODS)
            /\ IndicesWritten \subseteq 0..(Len(augments) - 1) ) =>
             augmenter.err = ""
       /\ augmenter.err = "" =>
             IF mapping.none
             THEN ~augmenter.has_class /\ DOMAIN augmenter.class_transforms = {}
             ELSE /\ augmenter.has_class
                  /\ DOMAIN augmenter.class_transforms =
                        {mapping.items[k][1] : k \in DOMAIN mapping.items}
                  /\ \A k \in DOMAIN mapping.items :
                        LET idx == mapping.items[k][2].list
                            sub == augmenter.class_transforms[
                                      mapping.items[k][1]].transforms
                        IN  /\ Len(sub) = Len(idx)
                            /\ \A j \in DOMAIN idx :
                                  idx[j] \in 0..(Len(Default) - 1) =>
                                     sub[j] = Default[idx[j] + 1]

\* a string "2 0" (reordered) and a list [1] on three steps
C6_Witness ==
    /\ augmenter.called /\ augmenter.err = "" /\ augmenter.has_class
    /\ Len(Default) = 3
    /\ Len(mapping.items) >= 2
    /\ mapping.items[1][2].form = "str"
    /\ mapping.items[1][2].text = <<"2", " ", "0">>
    /\ mapping.items[2][2].form = "list"
    /\ mapping.items[2][2].list = <<1>>
    /\ augmenter.class_transforms["cat"].transforms = <<Default[3], Default[1]>>
    /\ augmenter.class_transforms["dog"].transforms = <<Default[2]>>

(***************************************************************************)
(* C7: no BaseClassWiseAugmenter is constructed from a mapping with an     *)
(* index that is not one of the positions 0..N-1 of its N-step default     *)
(* pipeline (negative indices included): construction raises instead.      *)
(***************************************************************************)
C7_OutOfRangeIndexRaises ==
    (augmenter.called /\ augmenter.err = "") =>
       IndicesWritten \subseteq 0..(Len(Default) - 1)

(***************************************************************************)
(* C10 as claimed: the step sets of any two distinct pipelines (the        *)
(* pipeline create_AugTransforms returned, a dispatcher's default pipeline *)
(* and each of its class pipelines) are disjoint as object instances.      *)
(* Stated for the mappings whose indices are all positions of the default  *)
(* pipeline, so that a violation owes nothing to negative indices.         *)
(***************************************************************************)
Pipelines ==
    {p \in {ret.pipeline, augmenter.base_transforms} : p # NoPipeline}
    \cup {augmenter.class_transforms[c] : c \in DOMAIN augmenter.class_transforms}

C10_NoStepInTwoPipelines ==
    IndicesWritten \subseteq 0..(Len(Default) - 1) =>
       \A p, q \in Pipelines : p.id # q.id => StepIds(p) \cap StepIds(q) = {}

(***************************************************************************)
(* C10 as amended: pipelines of different compilations hold no transform   *)
(* object in common (steps and random_choice candidates alike), and all    *)
(* pipelines are distinct objects; the class pipelines of a dispatcher     *)
(* hold steps of its own default pipeline and of no other compilation.     *)
(***************************************************************************)
C10_CompilationsShareNoStep ==
    /\ TransformIds(ret.pipeline.transforms) \cap TransformIds(Default) = {}
    /\ \A p, q \in Pipelines : p # q => p.id # q.id
    /\ \A c \in DOMAIN augmenter.class_transforms :
          /\ StepIds(augmenter.class_transforms[c]) \subseteq
                StepIds(augmenter.base_transforms)
          /\ StepIds(augmenter.class_transforms[c]) \cap
                TransformIds(ret.pipeline.transforms) = {}

\* a compiled pipeline beside a dispatcher whose two class pipelines both
\* hold the first step of its default pipeline
C10_Witness ==
    /\ ret.called /\ ret.err = "" /\ Len(Steps) >= 2
    /\ \E i \in DOMAIN Steps : Len(Steps[i].cands) >= 1
    /\ augmenter.called /\ augmenter.err = ""
    /\ DOMAIN augmenter.class_transforms = {"cat", "dog"}
    /\ Len(augmenter.class_transforms["cat"].transforms) >= 1
    /\ augmenter.class_transforms["cat"].transforms[1] = Default[1]
    /\ Len(augmenter.class_transforms["dog"].transforms) >= 1
    /\ augmenter.class_transforms["dog"].transforms[1] = Default[1]

(***************************************************************************)
(* Cutout.  Reals are multiples of 1/RandomGrain: random.random() is       *)
(* draw/RandomGrain with draw in 0..RandomGrain-1 (the half-open [0, 1)),  *)
(* prob is prob/RandomGrain, ratio is ratio/RandomGrain.  An image is its  *)
(* size and the set of its black pixels; h_range and w_range are None.     *)
(***************************************************************************)
\* random.random() > self.prob
Gate(draw, prob) == draw > prob

\* int(u * length) for u = factor/RandomGrain >= 0
MaskWidth(factor, length) == (factor * length) \div RandomGrain

PyMax(a, b) == IF a >= b THEN a ELSE b

\* the pixels img.paste(mask, (x1, y1)) overwrites in a w x h image
Pasted(x1, y1, mask_w, mask_h, w, h) ==
    {xy \in (0..(w - 1)) \X (0..(h - 1)) :
        /\ x1 <= xy[1] /\ xy[1] < x1 + mask_w
        /\ y1 <= xy[2] /\ xy[2] < y1 + mask_h}

\* the loop "for n in range(self.n_holes)" over the sampled centers
RECURSIVE HoleLoop(_, _, _, _, _, _)
HoleLoop(centers, n, length, mask_w, w, h) ==
    IF n > Len(centers) THEN {}
    ELSE LET x1 == PyMax(0, centers[n][1] - length \div 2)
             y1 == PyMax(0, centers[n][2] - length \div 2)
         IN  Pasted(x1, y1, mask_w, length, w, h)
             \cup HoleLoop(centers, n + 1, length, mask_w, w, h)

\* Cutout.__init__ with h_range = w_range = None, and the image it is given
Cutouts ==
    [n_holes : 1..MaxHoles, length : 1..MaxLength, ratio : 0..1,
     prob : 0..RandomGrain, size : (1..MaxCutSide) \X (1..MaxCutSide),
     called : {FALSE}, draw : {0}, same : {TRUE}, holes : {0}, black : {{}}]

\* Cutout.__call__(image) on an image without a black pixel, with the
\* values the random sources return
CutoutCall ==
    LET w == cut.size[1]
        h == cut.size[2]
    IN  \E draw \in 0..(RandomGrain - 1),
           factor \in (RandomGrain - cut.ratio)..(RandomGrain + cut.ratio),
           centers \in [1..cut.n_holes -> (0..(w - 1)) \X (0..(h - 1))] :
           /\ cut' = IF Gate(draw, cut.prob)
                     THEN [cut EXCEPT !.called = TRUE, !.draw = draw,
                                      !.same = TRUE, !.holes = 0,
                                      !.black = {}]
                     ELSE [cut EXCEPT !.called = TRUE, !.draw = draw,
                                      !.same = FALSE, !.holes = cut.n_holes,
                                      !.black = HoleLoop(centers, 1, cut.length,
                                                  MaskWidth(factor, cut.length),
                                                  w, h)]
           /\ UNCHANGED <<AUG_METHODS, regCall, augments, ret, calls,
                          methods_at_call, mapping, augmenter, pad, noise>>

InitCutout ==
    /\ AUG_METHODS = ImportedMethods
    /\ regCall = NoCall
    /\ augments = <<>>
    /\ ret = NoRet
    /\ calls = <<>>
    /\ methods_at_call = ImportedMethods
    /\ mapping = NoMapping
    /\ augmenter = NoAugmenter
    /\ cut \in Cutouts
    /\ pad = NoPad
    /\ noise = NoNoise

NextCutout == CutoutCall

SpecCutout == InitCutout /\ [][NextCutout]_vars

(***************************************************************************)
(* C8: a Cutout with apply probability 0 returns its input unchanged for   *)
(* every value of the gate draw in [0, 1), the draw 0.0 included: no hole  *)
(* is pasted and no pixel turns black.                                     *)
(***************************************************************************)
C8_ProbZeroIsIdentity ==
    (cut.called /\ cut.prob = 0) => (cut.holes = 0 /\ cut.black = {})

(***************************************************************************)
(* PadIfNeed.                                                              *)
(***************************************************************************)
\* the paste offset with the two modes exchanged
PasteOffset_swapped(mode, w, h, max_size) ==
    IF mode = "edge"
    THEN <<(max_size - w) \div 2, (max_size - h) \div 2>>
    ELSE <<max_size - w, max_size - h>>

\* the offset given to new_im.paste in __call__
PasteOffset(mode, w, h, max_size) ==
    IF mode = "average"
    THEN <<(max_size - w) \div 2, (max_size - h) \div 2>>
    ELSE <<max_size - w, max_size - h>>

\* PadIfNeed.__init__: "" or the exception raised; pad_len is len(pad_value)
\* of a sequence, and 0 stands for an int
PadInit(pad_len, mode) ==
    IF pad_len # 0 /\ pad_len # 3 THEN "AssertionError"
    ELSE IF mode \notin {"edge", "average"} THEN "AssertionError"
    ELSE ""

\* PadIfNeed(pad_value, mode)(image) for an image of size (w, h)
PadCall ==
    \E pad_len \in {0, 2, 3}, mode \in {"edge", "average", "constant"},
       w \in 1..MaxPadSide, h \in 1..MaxPadSide :
       /\ pad' = IF PadInit(pad_len, mode) # ""
                 THEN [called |-> TRUE, err |-> PadInit(pad_len, mode),
                       mode |-> mode, w |-> w, h |-> h,
                       size |-> <<0, 0>>, at |-> <<0, 0>>]
                 ELSE LET max_size == PyMax(w, h)
                      IN  [called |-> TRUE, err |-> "", mode |-> mode,
                           w |-> w, h |-> h, size |-> <<max_size, max_size>>,
                           at |-> PasteOffset(mode, w, h, max_size)]
       /\ UNCHANGED <<AUG_METHODS, regCall, augments, ret, calls,
                      methods_at_call, mapping, augmenter, cut, noise>>

InitPad == InitRegistry

NextPad == PadCall

SpecPad == InitPad /\ [][NextPad]_vars

(***************************************************************************)
(* C9: PadIfNeed returns a square image of side max(w, h) that contains    *)
(* the whole source; in 'average' mode the source is pasted at             *)
(* ((max-w)//2, (max-h)//2) and the padding on opposite sides differs by   *)
(* at most one pixel; in 'edge' mode it is pasted at (max-w, max-h), so    *)
(* all padding of an axis is on one side and the source touches the        *)
(* opposite corner.                                                        *)
(***************************************************************************)
Side == IF pad.w >= pad.h THEN pad.w ELSE pad.h
PadLeft == pad.at[1]
PadTop == pad.at[2]
PadRight == pad.size[1] - pad.w - pad.at[1]
PadBottom == pad.size[2] - pad.h - pad.at[2]

C9_SquarePadding ==
    (pad.called /\ pad.err = "") =>
       /\ pad.size = <<Side, Side>>
       /\ PadLeft >= 0 /\ PadTop >= 0 /\ PadRight >= 0 /\ PadBottom >= 0
       /\ pad.mode = "average" =>
             /\ pad.at = <<(Side - pad.w) \div 2, (Side - pad.h) \div 2>>
             /\ PadRight - PadLeft \in {0, 1}
             /\ PadBottom - PadTop \in {0, 1}
       /\ pad.mode = "edge" =>
             /\ pad.at = <<Side - pad.w, Side - pad.h>>
             /\ PadRight = 0 /\ PadBottom = 0

\* an odd difference in 'average' mode: the padding cannot be split evenly
C9_Witness ==
    /\ pad.called /\ pad.err = ""
    /\ pad.mode = "average"
    /\ pad.w = 2 /\ pad.h = 5
    /\ pad.size = <<5, 5>>
    /\ pad.at = <<1, 0>>
    /\ PadRight = 2

(***************************************************************************)
(* CutAddNoise.  As for Cutout, random.random() is draw/RandomGrain and    *)
(* prob is prob/RandomGrain; h_range and w_range are None.  An image is    *)
(* its size <<width, height>>.  The values the random sources return in    *)
(* one __call__ (the gate draw and one hole center per loop round) are     *)
(* fixed with the input, and the call consumes them.                       *)
(***************************************************************************)
PyMin(a, b) == IF a <= b THEN a ELSE b

\* h and w when h_range and w_range are None, as np.random.randint(*h)
\* reads them: the half-open [0, side)
DefaultRange(side) == 0..(side - 1)

\* the size of noisy_image.resize(size=(image.width, image.height))
Resize(noisy, size) == size

\* the box without the lower clamp
CropBox_unclamped(x, y, length, noisy_width, noisy_height) ==
    <<x - length \div 2,
      y - length \div 2,
      PyMin(noisy_width, x + length \div 2),
      PyMin(noisy_height, y + length \div 2)>>

\* <<x1, y1, x2, y2>> of one loop round, for the center (x, y)
CropBox(x, y, length, noisy_width, noisy_height) ==
    <<PyMax(0, x - length \div 2),
      PyMax(0, y - length \div 2),
      PyMin(noisy_width, x + length \div 2),
      PyMin(noisy_height, y + length \div 2)>>

\* the size of noisy_image.crop((x1, y1, x2, y2))
CropSize(box) == <<box[3] - box[1], box[4] - box[2]>>

\* the loop "for n in range(self.n_holes)": per round the crop box, the size
\* of noisy_box and the position it is pasted at
RECURSIVE NoiseLoop(_, _, _, _)
NoiseLoop(centers, n, length, noisy) ==
    IF n > Len(centers) THEN <<>>
    ELSE LET box == CropBox(centers[n][1], centers[n][2], length,
                            noisy[1], noisy[2])
         IN  <<[box |-> box, size |-> CropSize(box),
                at |-> <<box[1], box[2]>>]>>
             \o NoiseLoop(centers, n + 1, length, noisy)

\* the sizes of the files in noisy_src
NoisySizes == {<<1, 1>>, <<5, 4>>}

\* CutAddNoise.__call__(image)
CutAddNoiseCall ==
    /\ noise' = IF Gate(noise.draw, noise.prob)
                THEN [noise EXCEPT !.called = TRUE, !.same = TRUE,
                                   !.holes = <<>>]
                ELSE LET noisy_image == Resize(noise.noisy, noise.size)
                     IN  [noise EXCEPT
                            !.called = TRUE, !.same = FALSE,
                            !.holes = NoiseLoop(noise.centers, 1,
                                                noise.length, noisy_image)]
    /\ UNCHANGED <<AUG_METHODS, regCall, augments, ret, calls,
                   methods_at_call, mapping, augmenter, cut, pad>>

\* CutAddNoise.__init__ with h_range = w_range = None, the image it is
\* given, the noise file random.choice picks and the random values
InitCutAddNoise ==
    /\ AUG_METHODS = ImportedMethods
    /\ regCall = NoCall
    /\ augments = <<>>
    /\ ret = NoRet
    /\ calls = <<>>
    /\ methods_at_call = ImportedMethods
    /\ mapping = NoMapping
    /\ augmenter = NoAugmenter
    /\ cut = NoCut
    /\ pad = NoPad
    /\ \E n_holes \in 1..MaxHoles, length \in 1..MaxNoiseLength,
          prob \in 0..RandomGrain, draw \in 0..(RandomGrain - 1),
          size \in (1..MaxCutSide) \X (1..MaxCutSide), noisy \in NoisySizes :
          \E centers \in [1..n_holes -> DefaultRange(size[1])
                                        \X DefaultRange(size[2])] :
             noise = [n_holes |-> n_holes, length |-> length, prob |-> prob,
                      size |-> size, noisy |-> noisy, draw |-> draw,
                      centers |-> centers, called |-> FALSE, same |-> TRUE,
                      holes |-> <<>>]

NextCutAddNoise == CutAddNoiseCall

SpecCutAddNoise == InitCutAddNoise /\ [][NextCutAddNoise]_vars

(***************************************************************************)
(* C11: when CutAddNoise is applied to an image of width W and height H,   *)
(* with any length L >= 1 and every hole center (x, y) sampled from the    *)
(* default ranges 0 <= x < W, 0 <= y < H, each crop box taken from the     *)
(* resized noise image has 0 <= x1 <= x2 <= W and 0 <= y1 <= y2 <= H, is   *)
(* at most L wide and L high, and is pasted at (x1, y1): the pasted region *)
(* lies inside the target image and its top-left corner is never negative. *)
(***************************************************************************)
C11_CropBoxInsideImage ==
    (noise.called /\ ~noise.same) =>
       /\ Len(noise.holes) = noise.n_holes
       /\ \A n \in 1..Len(noise.holes) :
             LET hole == noise.holes[n]
                 x1 == hole.box[1]
                 y1 == hole.box[2]
                 x2 == hole.box[3]
                 y2 == hole.box[4]
                 W == noise.size[1]
                 H == noise.size[2]
             IN  /\ noise.length >= 1
                 /\ noise.centers[n][1] \in 0..(W - 1)
                 /\ noise.centers[n][2] \in 0..(H - 1)
                 /\ 0 <= x1 /\ x1 <= x2 /\ x2 <= W
                 /\ 0 <= y1 /\ y1 <= y2 /\ y2 <= H
                 /\ x2 - x1 <= noise.length
                 /\ y2 - y1 <= noise.length
                 /\ hole.at = <<x1, y1>>
                 /\ hole.at[1] >= 0 /\ hole.at[2] >= 0
                 /\ hole.at[1] + hole.size[1] <= W
                 /\ hole.at[2] + hole.size[2] <= H

\* both clamps bite: length 4 around the corner (0, 1) of a 2 x 2 image,
\* with a noise file larger than the image; the second box is cut at the
\* right and bottom edges
C11_Witness ==
    /\ noise.called /\ ~noise.same
    /\ noise.size = <<2, 2>>
    /\ noise.noisy = <<5, 4>>
    /\ noise.length = 4
    /\ noise.centers = <<<<0, 1>>, <<1, 1>>>>
    /\ noise.holes[1].box = <<0, 0, 2, 2>>
    /\ noise.holes[2].box = <<0, 0, 2, 2>>
    /\ noise.holes[2].at = <<0, 0>>

====
